---- MODULE Spec2Model ----
(***************************************************************************)
(* emubayer (src/src/lib.rs): a decoded RGB(A) PNG is re-mosaiced into a   *)
(* 16-bit Bayer buffer (RgbImage::to_raw) and written as a DNG             *)
(* (RawImage::save_as_dng); the Bayer pattern comes from a string          *)
(* (BayerPattern::from_str).                                               *)
(*                                                                         *)
(* Vectors are TLA+ sequences, so the code's 0-based index i is element    *)
(* i + 1.  An Option is the empty sequence (None) or a one-element         *)
(* sequence (Some).                                                        *)
(***************************************************************************)
EXTENDS Integers, Sequences, FiniteSets, TLC

VARIABLES
    pc,             \* position of the program: "main", the four stores of to_raw's loop body, "ret", "raw", "saved", "panic"
    pattern_str,    \* Option: the &str given to BayerPattern::from_str
    bayer_pattern,  \* Option: the BayerPattern from_str returned
    file,           \* Option: the PNG file given to RgbImage::from_file
    file_err,       \* Option: the Err(&'static str) from_file returned
    img,            \* Option: the RgbImage from_file returned (self of to_raw)
    row,            \* to_raw: the outer loop variable
    column,         \* to_raw: the inner loop variable
    raw_index,      \* to_raw: let mut raw_index
    raw_data,       \* to_raw: let mut raw_data: Vec<u16>
    src_index,      \* history: for each raw_data slot, the self.data index its store read (-1: not stored yet)
    raw,            \* Option: the RawImage to_raw returned
    dng,            \* Option: the TIFF file save_as_dng wrote
    io_failed,      \* whether write_to met an I/O failure
    panic_msg       \* the message of the panic that aborted the program ("" while it runs)

vars == <<pc, pattern_str, bayer_pattern, file, file_err, img, row, column,
          raw_index, raw_data, src_index, raw, dng, io_failed, panic_msg>>

(***************************************************************************)
(* Bounds of the model.                                                    *)
(***************************************************************************)
\* Largest width and height of a PNG file.
MaxDim == 4
\* Longest string given to from_str.
MaxStrLen == 6

None == <<>>
Some(x) == <<x>>
IsSome(o) == Len(o) = 1
Get(o) == o[1]

\* A sequence of n copies of v (vec![v; n]).
Repeat(v, n) == [i \in 1..n |-> v]

RECURSIVE Pow2(_)
Pow2(n) == IF n = 0 THEN 1 ELSE 2 * Pow2(n - 1)

\* u16 arithmetic.  The u32 and usize products of the code are plain products
\* here: with at most MaxDim rows and columns they stay far below 2^32.
U16 == Pow2(16)

(***************************************************************************)
(* enum BitDepth, enum ColorType                                           *)
(***************************************************************************)
BitDepth == {"One", "Two", "Four", "Eight", "Sixteen"}

to_u32(bit_depth) ==
    CASE bit_depth = "One" -> 1
      [] bit_depth = "Two" -> 2
      [] bit_depth = "Four" -> 4
      [] bit_depth = "Eight" -> 8
      [] bit_depth = "Sixteen" -> 16

ColorType == {"RGB", "RGBA"}

(***************************************************************************)
(* enum BayerPattern                                                       *)
(***************************************************************************)
BayerPattern == {"RGGB", "BGGR", "GRBG", "GBRG"}

color_offsets(p) ==
    CASE p = "RGGB" -> <<0, 1, 1, 2>>
      [] p = "BGGR" -> <<2, 1, 1, 0>>
      [] p = "GRBG" -> <<1, 0, 2, 1>>
      [] p = "GBRG" -> <<1, 2, 0, 1>>

(***************************************************************************)
(* BayerPattern::from_str.  A &str is a sequence of one-character strings. *)
(***************************************************************************)
\* The characters strings are made of: the letters of the pattern names in
\* both cases, a whitespace character and a letter of no pattern name.
Chars == {"R", "G", "B", "r", "g", "b", " ", "X"}

\* char::to_uppercase on the model's characters.
upper(c) ==
    CASE c = "r" -> "R"
      [] c = "g" -> "G"
      [] c = "b" -> "B"
      [] OTHER -> c

\* str::to_uppercase
to_uppercase(s) == [i \in 1..Len(s) |-> upper(s[i])]

is_whitespace(c) == c = " "

\* Faulty trim: only the leading whitespace is removed (trim_start).
trim_keep_trailing(s) ==
    LET keep == {i \in 1..Len(s) : ~is_whitespace(s[i])}
    IN  IF keep = {} THEN <<>>
        ELSE LET first == CHOOSE i \in keep : \A j \in keep : i <= j
             IN  SubSeq(s, first, Len(s))

\* str::trim: the slice between the first and the last non-whitespace character.
trim(s) ==
    LET keep == {i \in 1..Len(s) : ~is_whitespace(s[i])}
    IN  IF keep = {} THEN <<>>
        ELSE LET first == CHOOSE i \in keep : \A j \in keep : i <= j
                 last == CHOOSE i \in keep : \A j \in keep : j <= i
             IN  SubSeq(s, first, last)

\* The name of a variant as a &str (the match arms of from_str and of fmt).
Name(p) ==
    CASE p = "RGGB" -> <<"R", "G", "G", "B">>
      [] p = "BGGR" -> <<"B", "G", "G", "R">>
      [] p = "GRBG" -> <<"G", "R", "B", "G">>
      [] p = "GBRG" -> <<"G", "B", "R", "G">>

ParsePanicMsg == "Could not parse Bayer pattern from str: Unexpected value given."

\* Faulty from_str: the catch-all arm returns a default variant.
from_str_fallback(s) ==
    LET t == trim(to_uppercase(s))
    IN  IF \E p \in BayerPattern : t = Name(p)
        THEN [kind |-> "Ok", value |-> CHOOSE p \in BayerPattern : t = Name(p)]
        ELSE [kind |-> "Ok", value |-> "RGGB"]

\* from_str's outcome: kind "Ok" with the variant returned, or kind "Panic"
\* with the panic's message.  The function has no other way to end.
from_str(s) ==
    LET t == trim(to_uppercase(s))
    IN  IF \E p \in BayerPattern : t = Name(p)
        THEN [kind |-> "Ok", value |-> CHOOSE p \in BayerPattern : t = Name(p)]
        ELSE [kind |-> "Panic", value |-> ParsePanicMsg]

FromStr(s) ==
    /\ pc = "main"
    /\ pattern_str = None
    /\ pattern_str' = Some(s)
    /\ LET r == from_str(s)
       IN  IF r.kind = "Ok"
           THEN /\ bayer_pattern' = Some(r.value)
                /\ UNCHANGED <<pc, panic_msg>>
           ELSE /\ pc' = "panic"
                /\ panic_msg' = r.value
                /\ UNCHANGED bayer_pattern
    /\ UNCHANGED <<file, file_err, img, row, column, raw_index, raw_data,
                   src_index, raw, dng, io_failed>>

(***************************************************************************)
(* RgbImage::from_file.  A PNG file is what the png decoder finds in it:   *)
(* whether it opens and decodes, its header, and its samples, given by a   *)
(* fill rule over the sample index k (row-major, channel-interleaved).     *)
(***************************************************************************)
PngColorType == {"Grayscale", "RGB", "Indexed", "GrayscaleAlpha", "RGBA"}

Channels(color_type) ==
    CASE color_type = "RGB" -> 3
      [] color_type = "RGBA" -> 4
      [] color_type = "Grayscale" -> 1
      [] color_type = "Indexed" -> 1
      [] color_type = "GrayscaleAlpha" -> 2

\* Bytes one sample takes in the decoded buffer.
BytesPerSample(bit_depth) == IF bit_depth = "Sixteen" THEN 2 ELSE 1

\* Sample k of the file: a solid colour (R=0xAA, G=0xBB, B=0xCC, A=0xFF; at 16
\* bits 0xAA55, 0xBB66, 0xCC77, 0xFFFF) or a ramp in which every sample, and
\* at 16 bits every byte of it, differs from its neighbours'.
Sample(f, k) ==
    LET ch == k % Channels(f.color_type)
    IN  IF f.fill = "solid"
        THEN IF f.bit_depth = "Sixteen"
             THEN <<43605, 47974, 52343, 65535>>[ch + 1]
             ELSE <<170, 187, 204, 255>>[ch + 1]
        ELSE IF f.bit_depth = "Sixteen"
             THEN 256 * ((k + 1) % 256) + ((k + 128) % 256)
             ELSE (k + 1) % 256

SampleCount(f) == f.width * f.height * Channels(f.color_type)

\* info.buffer_size() and the bytes next_frame leaves in the buffer: one byte
\* per 8-bit sample, two (most significant first) per 16-bit sample.
buffer_size(f) == SampleCount(f) * BytesPerSample(f.bit_depth)

Decoded(f) ==
    [j \in 1..buffer_size(f) |->
        IF f.bit_depth = "Sixteen"
        THEN IF (j - 1) % 2 = 0
             THEN Sample(f, (j - 1) \div 2) \div 256
             ELSE Sample(f, (j - 1) \div 2) % 256
        ELSE Sample(f, j - 1)]

\* PNG allows truecolour (RGB, RGBA) samples of 8 and 16 bits only.
GoodFiles ==
    [status : {"ok"}, width : 0..MaxDim, height : 0..MaxDim,
     color_type : ColorType, bit_depth : {"Eight", "Sixteen"},
     fill : {"solid", "ramp"}]

BadFiles ==
    [status : {"missing", "corrupt_header", "corrupt_frame"}, width : {2},
     height : {2}, color_type : {"RGB"}, bit_depth : {"Eight"}, fill : {"solid"}]
    \cup
    [status : {"ok"}, width : {2}, height : {2},
     color_type : PngColorType \ ColorType, bit_depth : {"Eight"},
     fill : {"solid"}]

PngFiles == GoodFiles \cup BadFiles

\* from_file's result: Ok(RgbImage) or Err(message).
from_file(f) ==
    IF f.status = "missing"
    THEN [kind |-> "Err", msg |-> "PNG image couldn't be opened."]
    ELSE IF f.status = "corrupt_header"
    THEN [kind |-> "Err", msg |-> "This PNG file appears to be corrupted."]
    ELSE IF f.color_type \notin ColorType
    THEN [kind |-> "Err", msg |-> "PNG image needs to be RGB or RGBA Color Type."]
    ELSE IF f.status = "corrupt_frame"
    THEN [kind |-> "Err", msg |-> "An error occurred interpreting this PNG image."]
    ELSE [kind |-> "Ok",
          image |-> [width |-> f.width, height |-> f.height,
                     color_type |-> f.color_type, data |-> Decoded(f),
                     bit_depth |-> f.bit_depth]]

FromFile(f) ==
    /\ pc = "main"
    /\ file = None
    /\ file' = Some(f)
    /\ LET r == from_file(f)
       IN  IF r.kind = "Ok"
           THEN img' = Some(r.image) /\ UNCHANGED file_err
           ELSE file_err' = Some(r.msg) /\ UNCHANGED img
    /\ UNCHANGED <<pc, pattern_str, bayer_pattern, row, column, raw_index,
                   raw_data, src_index, raw, dng, io_failed, panic_msg>>

(***************************************************************************)
(* RgbImage::even_width, even_height, even_size                            *)
(***************************************************************************)
even_width(image) ==
    IF image.width % 2 = 0 THEN image.width ELSE image.width - 1

even_height(image) ==
    IF image.height % 2 = 0 THEN image.height ELSE image.height - 1

\* Faulty even_size: the product of the uncropped dimensions.
even_size_uncropped(image) == image.width * image.height

even_size(image) == even_width(image) * even_height(image)

(***************************************************************************)
(* RgbImage::to_raw.  self is Get(img), bayer_pattern is                   *)
(* Get(bayer_pattern); the immutable locals are operators of the two.      *)
(***************************************************************************)
self == Get(img)

is_even == self.width % 2 = 0

shift == 16 - to_u32(self.bit_depth)

\* Faulty multiplier: the two arms exchanged.
multiplier_swapped == IF self.color_type = "RGB" THEN 4 ELSE 3

multiplier == IF self.color_type = "RGB" THEN 3 ELSE 4

odd_offset == IF is_even THEN 0 ELSE row

\* (x as u16) << shift: the bits shifted past bit 15 are lost.
Shl16(x, n) == (x * Pow2(n)) % U16

\* The index of self.data a store reads: raw index i, slot k of color_offsets.
SourceIndex(i, k) ==
    (i + odd_offset) * multiplier + color_offsets(Get(bayer_pattern))[k + 1]

IndexPanicMsg == "index out of bounds"

\* Lines 113-124, and the first evaluation of the two range expressions: the
\* locals, the zeroed raw_data and, when there is a tile, its row and column.
ToRawBegin ==
    /\ pc = "main"
    /\ IsSome(img)
    /\ IsSome(bayer_pattern)
    /\ raw_data' = Repeat(0, even_size(self))
    /\ src_index' = Repeat(-1, even_size(self))
    /\ pc' = IF even_height(self) > 0 /\ even_width(self) > 0
             THEN "top_left" ELSE "ret"
    /\ row' = 0
    /\ column' = 0
    /\ raw_index' = 0
    /\ UNCHANGED <<pattern_str, bayer_pattern, file, file_err, img, raw, dng,
                   io_failed, panic_msg>>

\* The bounds checks of raw_data[i] = self.data[SourceIndex(i, k)] (and of the
\* usize subtraction that made i).
StorePanics(i, k) ==
    i < 0 \/ SourceIndex(i, k) >= Len(self.data) \/ i >= Len(raw_data)

\* raw_data[i] = (self.data[SourceIndex(i, k)] as u16) << shift; then the
\* program is at position next.
Store(i, k, next) ==
    /\ raw_index' = i
    /\ IF StorePanics(i, k)
       THEN /\ pc' = "panic"
            /\ panic_msg' = IndexPanicMsg
            /\ UNCHANGED <<raw_data, src_index>>
       ELSE /\ raw_data' = [raw_data EXCEPT
                               ![i + 1] = Shl16(self.data[SourceIndex(i, k) + 1], shift)]
            /\ src_index' = [src_index EXCEPT ![i + 1] = SourceIndex(i, k)]
            /\ pc' = next
            /\ UNCHANGED panic_msg
    /\ UNCHANGED <<pattern_str, bayer_pattern, file, file_err, img, raw, dng,
                   io_failed>>

\* Position after the bottom-left store: the next column, the next row, or the
\* end of both loops (each range is stepped by 2).
AfterTile ==
    IF column + 2 < even_width(self) THEN "top_left"
    ELSE IF row + 2 < even_height(self) THEN "top_left"
    ELSE "ret"

\* Lines 130-135.
TopLeft ==
    /\ pc = "top_left"
    /\ Store(row * even_width(self) + column, 0, "top_right")
    /\ UNCHANGED <<row, column>>

\* Lines 137-142.
TopRight ==
    /\ pc = "top_right"
    /\ Store(raw_index + 1, 1, "bottom_right")
    /\ UNCHANGED <<row, column>>

\* Faulty bottom-right store: slot 2 of color_offsets, the bottom-left one.
BottomRightSlot2 ==
    /\ pc = "bottom_right"
    /\ Store(raw_index + even_width(self), 2, "bottom_left")
    /\ UNCHANGED <<row, column>>

\* Lines 144-149.
BottomRight ==
    /\ pc = "bottom_right"
    /\ Store(raw_index + even_width(self), 3, "bottom_left")
    /\ UNCHANGED <<row, column>>

\* Lines 151-156, and the step of the loops to the next tile.
BottomLeft ==
    /\ pc = "bottom_left"
    /\ Store(raw_index - 1, 2, AfterTile)
    /\ IF StorePanics(raw_index - 1, 2)
       THEN UNCHANGED <<row, column>>
       ELSE IF column + 2 < even_width(self)
            THEN column' = column + 2 /\ UNCHANGED row
            ELSE column' = 0 /\ row' = row + 2

\* Lines 160-165.
ToRawReturn ==
    /\ pc = "ret"
    /\ raw' = Some([width |-> even_width(self), height |-> even_height(self),
                    data |-> raw_data, bayer_pattern |-> Get(bayer_pattern)])
    /\ pc' = "raw"
    /\ UNCHANGED <<pattern_str, bayer_pattern, file, file_err, img, row, column,
                   raw_index, raw_data, src_index, dng, io_failed, panic_msg>>

(***************************************************************************)
(* RawImage::save_as_dng                                                   *)
(***************************************************************************)
\* Faulty write_u16: most significant byte first.
write_u16_be(val) == <<val \div 256, val % 256>>

\* write_u16::<LittleEndian>(val): the two bytes appended to image_bytes.
write_u16(val) == <<val % 256, val \div 256>>

\* Lines 220-224: image_bytes after the loop over self.data.
RECURSIVE image_bytes(_)
image_bytes(data) ==
    IF data = <<>> THEN <<>>
    ELSE write_u16(Head(data)) \o image_bytes(Tail(data))

\* Faulty StripByteCounts: the number of samples, not of bytes.
strip_byte_counts_samples(r) == r.width * r.height

\* Line 244: self.width * self.height * 2.
strip_byte_counts(r) == r.width * r.height * 2

\* Lines 233-269: the IFD's entries; StripOffsets points at the strip, which is
\* held here.
Ifd(r) ==
    [PhotometricInterpretation |-> 32803,
     NewSubfileType |-> 0,
     ImageWidth |-> r.width,
     ImageLength |-> r.height,
     BitsPerSample |-> 16,
     Compression |-> 1,
     Orientation |-> 1,
     SamplesPerPixel |-> 1,
     RowsPerStrip |-> r.height,
     StripByteCounts |-> strip_byte_counts(r),
     CFARepeatPatternDim |-> <<2, 2>>,
     CFAPattern2 |-> color_offsets(r.bayer_pattern),
     DNGVersion |-> <<1, 4, 0, 0>>,
     StripOffsets |-> image_bytes(r.data)]

UnwrapPanicMsg == "called Result::unwrap() on an Err value"

\* Faulty outcome: the I/O error is dropped.
write_outcome_swallow(io_ok) == "saved"

\* Lines 270-271: write_to(file_path).unwrap().  The function returns () or
\* panics; it has no error value to return.
write_outcome(io_ok) == IF io_ok THEN "saved" ELSE "panic"

SaveAsDng ==
    /\ pc = "raw"
    /\ \E io_ok \in BOOLEAN :
        /\ pc' = write_outcome(io_ok)
        /\ io_failed' = ~io_ok
        /\ dng' = IF io_ok THEN Some(Ifd(Get(raw))) ELSE None
        /\ panic_msg' = IF write_outcome(io_ok) = "panic"
                        THEN UnwrapPanicMsg ELSE panic_msg
    /\ UNCHANGED <<pattern_str, bayer_pattern, file, file_err, img, row, column,
                   raw_index, raw_data, src_index, raw>>

(***************************************************************************)
(* The program: a caller parses a pattern and opens a file, in either      *)
(* order, converts and saves.                                              *)
(***************************************************************************)
Init ==
    /\ pc = "main"
    /\ pattern_str = None
    /\ bayer_pattern = None
    /\ file = None
    /\ file_err = None
    /\ img = None
    /\ row = 0
    /\ column = 0
    /\ raw_index = 0
    /\ raw_data = <<>>
    /\ src_index = <<>>
    /\ raw = None
    /\ dng = None
    /\ io_failed = FALSE
    /\ panic_msg = ""

\* The pattern strings a caller passes in the whole-program specification.
Literals ==
    {<<"r", "g", "g", "b">>, <<" ", "R", "G", "G", "B", " ">>,
     <<"R", "g", "G", "b">>, <<"B", "G", "G", "R">>, <<"g", "r", "b", "g">>,
     <<"G", "B", "R", "G">>, <<"X", "X", "X", "X">>, <<>>,
     <<"R", "G", " ", "G", "B">>}

Next ==
    \/ \E s \in Literals : FromStr(s)
    \/ \E f \in PngFiles : FromFile(f)
    \/ ToRawBegin
    \/ TopLeft
    \/ TopRight
    \/ BottomRight
    \/ BottomLeft
    \/ ToRawReturn
    \/ SaveAsDng

Spec == Init /\ [][Next]_vars

\* from_str alone, over every string of at most MaxStrLen characters.
NextParse ==
    /\ pattern_str = None
    /\ \E n \in 0..MaxStrLen : \E s \in [1..n -> Chars] : FromStr(s)

SpecParse == Init /\ [][NextParse]_vars

(***************************************************************************)
(* Properties.  Each is stated from the inputs (the file's samples, the    *)
(* string) and the outputs (raw, dng), not from the operators above.       *)
(***************************************************************************)
\* The source image and its dimensions, once from_file has returned it.
Width == self.width
Height == self.height
Cc == Channels(self.color_type)

\* The byte the decoded buffer holds for channel ch of the pixel at (r, c) of
\* an 8-bit image.
Channel8(r, c, ch) == self.data[(r * Width + c) * Cc + ch + 1]

\* C1: in an 8-bit image of even width and height, the sample at (r, c) of
\* to_raw's output is channel T[2*(r mod 2) + (c mod 2)] of the source pixel
\* at (r, c), shifted left by 8, T being the pattern's colour-offset table;
\* RGGB on the solid colour AA/BB/CC gives AA00, BB00, BB00, CC00.
C1_ChannelMapping ==
    (IsSome(raw) /\ Width % 2 = 0 /\ Height % 2 = 0 /\ self.bit_depth = "Eight") =>
        LET out == Get(raw)
            T == color_offsets(out.bayer_pattern)
        IN  /\ \A r \in 0..(Height - 1), c \in 0..(Width - 1) :
                out.data[r * Width + c + 1] =
                    Channel8(r, c, T[2 * (r % 2) + (c % 2) + 1]) * 256
            /\ (out.bayer_pattern = "RGGB" /\ Get(file).fill = "solid") =>
                \A r \in 0..(Height - 1), c \in 0..(Width - 1) :
                    out.data[r * Width + c + 1] =
                        CASE r % 2 = 0 /\ c % 2 = 0 -> 43520
                          [] r % 2 = 1 /\ c % 2 = 1 -> 52224
                          [] OTHER -> 47872

C1_Witness ==
    /\ IsSome(raw)
    /\ Width = 4 /\ Height = 4
    /\ self.bit_depth = "Eight"
    /\ Get(file).fill = "ramp"
    /\ Get(raw).bayer_pattern = "GRBG"
    /\ Len(Get(raw).data) = 16

\* The pixel of the source image that byte b of the decoded buffer belongs to.
PixelOfByte(b) == (b \div BytesPerSample(self.bit_depth)) \div Cc

\* C2: in an image of odd width or odd height, every byte to_raw reads
\* belongs to a pixel at a row < even_height and a column < even_width: the
\* dropped last column and the dropped last row are never read.
C2_DroppedNeverRead ==
    (IsSome(img) /\ (Width % 2 = 1 \/ Height % 2 = 1)) =>
        \A i \in DOMAIN src_index :
            src_index[i] >= 0 =>
                /\ PixelOfByte(src_index[i]) \div Width < Height - (Height % 2)
                /\ PixelOfByte(src_index[i]) % Width < Width - (Width % 2)

\* C3: the RawImage to_raw returns has width - (width mod 2) columns and
\* height - (height mod 2) rows, both even, and width * height samples:
\* nothing is cropped from even dimensions, and a dimension of 0 or 1 leaves
\* no sample.
C3_EvenDimensions ==
    IsSome(raw) =>
        LET out == Get(raw)
        IN  /\ out.width = Width - (Width % 2)
            /\ out.height = Height - (Height % 2)
            /\ out.width % 2 = 0
            /\ out.height % 2 = 0
            /\ Len(out.data) = out.width * out.height
            /\ (Width % 2 = 0 /\ Height % 2 = 0) => Len(out.data) = Width * Height
            /\ (Width <= 1 \/ Height <= 1) => Len(out.data) = 0

C3_Witness ==
    /\ IsSome(raw)
    /\ Width = 3 /\ Height = 4
    /\ Get(raw).width = 2 /\ Get(raw).height = 4
    /\ Len(Get(raw).data) = 8

\* C4: at every bit depth N, every sample of to_raw's output is a sample of
\* the source shifted left by 16 - N: a 16-bit sample is stored whole, an
\* 8-bit sample shifted left by 8.
C4_TopBits ==
    IsSome(raw) =>
        \A i \in 1..Len(Get(raw).data) :
            \E k \in 0..(SampleCount(Get(file)) - 1) :
                Get(raw).data[i] =
                    Sample(Get(file), k) * Pow2(16 - to_u32(self.bit_depth))

\* Two characters that are the same letter in either case.
SameLetter(c, d) ==
    \/ c = d
    \/ {c, d} \in {{"R", "r"}, {"G", "g"}, {"B", "b"}}

\* s is the name of p in some casing, between runs of whitespace.
IsLiteralOf(s, p) ==
    \E l \in 0..(Len(s) - 4) :
        /\ \A i \in 1..l : s[i] = " "
        /\ \A i \in 1..4 : SameLetter(s[l + i], Name(p)[i])
        /\ \A i \in (l + 5)..Len(s) : s[i] = " "

Unrecognized(s) == \A p \in BayerPattern : ~IsLiteralOf(s, p)

\* C5: from_str returns variant p exactly for the casings and whitespace
\* paddings of p's name, so distinct names give distinct variants; every
\* other string is rejected and gives no variant.
C5_ParsePattern ==
    IsSome(pattern_str) =>
        /\ \A p \in BayerPattern :
            (bayer_pattern = Some(p)) <=> IsLiteralOf(Get(pattern_str), p)
        /\ (bayer_pattern = None) <=> (pc = "panic")

C5_Witness ==
    /\ pattern_str = Some(<<" ", "g", "B", "r", "G", " ">>)
    /\ bayer_pattern = Some("GBRG")

\* C6: the StripByteCounts entry is width * height * 2 and is the number of
\* bytes of the strip.
C6_StripByteCounts ==
    IsSome(dng) =>
        /\ Get(dng).StripByteCounts = Get(raw).width * Get(raw).height * 2
        /\ Get(dng).StripByteCounts = Len(Get(dng).StripOffsets)

C6_Witness ==
    /\ IsSome(dng)
    /\ Get(raw).width = 4 /\ Get(raw).height = 2
    /\ Get(dng).StripByteCounts = 16

\* C7: the strip is the samples in order, each as its least significant byte
\* and then its most significant byte, and nothing else.
C7_LittleEndian ==
    IsSome(dng) =>
        LET data == Get(raw).data
            strip == Get(dng).StripOffsets
        IN  /\ Len(strip) = 2 * Len(data)
            /\ \A i \in 0..(Len(data) - 1) :
                /\ strip[2 * i + 1] = data[i + 1] % 256
                /\ strip[2 * i + 2] = data[i + 1] \div 256

C7_Witness ==
    /\ IsSome(dng)
    /\ Len(Get(raw).data) = 16
    /\ \E i \in 1..16 : Get(raw).data[i] \div 256 # Get(raw).data[i] % 256
    /\ \A i, j \in 1..16 : i # j => Get(raw).data[i] # Get(raw).data[j]

\* C8, as stated: an unrecognized pattern literal is reported as an error
\* value and never aborts the program.
C8_ReportedAsValue ==
    (IsSome(pattern_str) /\ Unrecognized(Get(pattern_str))) => pc # "panic"

\* C8, amended: an unrecognized pattern literal makes from_str panic with its
\* message; no variant is returned and no transform work has begun.
C8_PanicsBeforeTransform ==
    (IsSome(pattern_str) /\ Unrecognized(Get(pattern_str))) =>
        /\ pc = "panic"
        /\ panic_msg = ParsePanicMsg
        /\ bayer_pattern = None
        /\ raw_data = <<>> /\ raw = None /\ dng = None

C8_Witness ==
    /\ pattern_str = Some(<<"X", "X", "X", "X">>)
    /\ pc = "panic"
    /\ IsSome(img)

\* C9, as stated: an I/O failure in save_as_dng is returned as an error value
\* and never aborts the program.
C9_ReturnedAsValue == io_failed => pc # "panic"

\* C9, amended: save_as_dng ends in one of two ways: the file is written and
\* it returns, or the I/O failure makes it panic (unwrap), with no file.
C9_SavedOrPanic ==
    /\ io_failed => (pc = "panic" /\ panic_msg = UnwrapPanicMsg /\ dng = None)
    /\ pc = "saved" => (~io_failed /\ IsSome(dng))

C9_Witness == io_failed /\ pc = "panic" /\ IsSome(raw) /\ Len(Get(raw).data) > 0

\* C10: when the buffer holds width * height * channel_count bytes, every
\* index to_raw reads is inside the buffer, every index it writes is inside
\* the output, and to_raw never fails on an index.
C10_InBounds ==
    (IsSome(img) /\ Len(self.data) = Width * Height * Cc) =>
        /\ panic_msg # IndexPanicMsg
        /\ \A i \in DOMAIN src_index : src_index[i] < Len(self.data)
        /\ pc \in {"top_right", "bottom_right", "bottom_left"} =>
            raw_index < (Width - (Width % 2)) * (Height - (Height % 2))
        /\ pc = "top_left" => ~StorePanics(row * even_width(self) + column, 0)
        /\ pc = "top_right" => ~StorePanics(raw_index + 1, 1)
        /\ pc = "bottom_right" => ~StorePanics(raw_index + even_width(self), 3)
        /\ pc = "bottom_left" => ~StorePanics(raw_index - 1, 2)

C10_Witness ==
    /\ pc = "raw"
    /\ Width = 3 /\ Height = 3
    /\ Len(self.data) = 27
    /\ \A i \in DOMAIN src_index : src_index[i] >= 0

====
